---- MODULE Spec2Model ----
(***************************************************************************)
(* llvm-src: the Build configuration builder, Build::build and the         *)
(* Artifacts it returns (src/src/lib.rs), driven as in src/src/main.rs.    *)
(*                                                                         *)
(* Strings (String, OsString, PathBuf) are sequences of one-character      *)
(* strings.  BadByte stands for a byte sequence that is not valid Unicode, *)
(* which an OsString or a file name may hold and a String may not.         *)
(***************************************************************************)
EXTENDS Naturals, Sequences, FiniteSets

VARIABLES
    env,        \* the process environment: variable name -> Option<OsString>
    cfg,        \* the Build objects: name -> Option<Build>
    lastSet,    \* history: per Build and field, the argument of the last setter call
    pc,         \* position of the main thread
    self,       \* the Build whose build() is running (or ran last)
    locals,     \* build()'s locals host, target, profile, out_dir, lib_dir, include_dir
    calls,      \* number of build() calls entered
    spawned,    \* external build tool invocations made by the current build() call
    cmake,      \* the external tool invocation of the current call: arguments and status
    readPath,   \* Option<PathBuf>: the directory the current call passed to read_dir
    listing,    \* what read_dir(<out_dir>/build/lib) enumerates, in enumeration order
    idx,        \* next entry of listing the iterator chain will pull
    libs,       \* names collected so far
    result,     \* Option<Artifacts>: the value returned by the current build() call
    panic,      \* Option<[site, msg]>: the panic that ended the process
    artifacts,  \* the Artifacts value print_cargo_metadata is called on
    ppc,        \* position inside print_cargo_metadata
    pidx,       \* next element of artifacts.libs the for loop will print
    stdout      \* lines printed so far

vars == <<env, cfg, lastSet, pc, self, locals, calls, spawned, cmake, readPath, listing,
          idx, libs, result, panic, artifacts, ppc, pidx, stdout>>

cfgVars == <<cfg, lastSet>>
buildVars == <<pc, self, locals, calls, spawned, cmake, readPath, listing, idx, libs,
               result, panic>>
emitVars == <<artifacts, ppc, pidx, stdout>>

----------------------------------------------------------------------------
(* Bounds *)

MaxCalls == 2       \* build() calls per run
MaxEntries == 2     \* entries in <out_dir>/build/lib
MaxLibs == 3        \* libraries of an Artifacts value handed to print_cargo_metadata

----------------------------------------------------------------------------
(* Option<T> *)

None == [some |-> FALSE]
Some(v) == [some |-> TRUE, val |-> v]

(* Characters and string literals of the source *)

Sep == "/"
Dot == "."
BadByte == "\\xFF"

LlvmBuild == <<"l", "l", "v", "m", "-", "b", "u", "i", "l", "d">>
LibSeg == <<"l", "i", "b">>
IncludeSeg == <<"i", "n", "c", "l", "u", "d", "e">>
BuildLibSeg == <<"b", "u", "i", "l", "d", "/", "l", "i", "b">>
SourceDir == <<"$", "/", "l", "l", "v", "m", "-", "1", "5", ".", "0", ".", "7", "/", "l", "l", "v", "m">>

MsgHost == "HOST not set"
MsgTarget == "TARGET not set"
MsgProfile == "PROFILE not set"
MsgOutDir == "OUT_DIR not set"

(* OsString -> Result<String>: the conversion fails on invalid Unicode *)
IsUnicode(s) == \A i \in 1..Len(s) : s[i] # BadByte

(* PathBuf::join(base, path) on Unix: an absolute path replaces base; a      *)
(* separator is inserted unless base is empty or already ends with one.       *)
IsAbsolute(p) == Len(p) > 0 /\ p[1] = Sep

Join(base, p) ==
    IF IsAbsolute(p) THEN p
    ELSE IF Len(base) > 0 /\ base[Len(base)] # Sep THEN base \o <<Sep>> \o p
    ELSE base \o p

----------------------------------------------------------------------------
(* Environment and construction *)

EnvNames == {"HOST", "TARGET", "OUT_DIR", "PROFILE"}

(* env::var(name).ok(): present only when set and valid Unicode *)
(* faulty variant: keeps a value that is not valid Unicode *)
EnvVarAnyBytes(e, name) == e[name]

EnvVar(e, name) ==
    IF e[name].some /\ IsUnicode(e[name].val) THEN Some(e[name].val) ELSE None

(* env::var_os(name) *)
EnvVarOs(e, name) == e[name]

(* faulty variant: the OUT_DIR fallback without the llvm-build segment *)
DefaultRawOutDir(e) ==
    [host    |-> EnvVar(e, "HOST"),
     target  |-> EnvVar(e, "TARGET"),
     out_dir |-> EnvVarOs(e, "OUT_DIR"),
     profile |-> EnvVar(e, "PROFILE")]

(* impl Default for Build *)
Default(e) ==
    [host    |-> EnvVar(e, "HOST"),
     target  |-> EnvVar(e, "TARGET"),
     out_dir |-> IF EnvVarOs(e, "OUT_DIR").some
                 THEN Some(Join(EnvVarOs(e, "OUT_DIR").val, LlvmBuild)) ELSE None,
     profile |-> EnvVar(e, "PROFILE")]

Builds == {"b1", "b2"}

NoSetters == [host |-> None, target |-> None, out_dir |-> None, profile |-> None]

(* Build::new *)
New(b) ==
    /\ pc = "idle"
    /\ ~cfg[b].some
    /\ cfg' = [cfg EXCEPT ![b] = Some(Default(env))]
    /\ UNCHANGED <<env, lastSet, buildVars, emitVars>>

(* Build::host *)
(* faulty variant: the host setter also overwrites target *)
hostClobber(b, v) ==
    /\ pc = "idle"
    /\ cfg[b].some
    /\ cfg' = [cfg EXCEPT ![b].val.host = Some(v), ![b].val.target = Some(v)]
    /\ lastSet' = [lastSet EXCEPT ![b].host = Some(v)]
    /\ UNCHANGED <<env, buildVars, emitVars>>

host(b, v) ==
    /\ pc = "idle"
    /\ cfg[b].some
    /\ cfg' = [cfg EXCEPT ![b].val.host = Some(v)]
    /\ lastSet' = [lastSet EXCEPT ![b].host = Some(v)]
    /\ UNCHANGED <<env, buildVars, emitVars>>

(* Build::target *)
target(b, v) ==
    /\ pc = "idle"
    /\ cfg[b].some
    /\ cfg' = [cfg EXCEPT ![b].val.target = Some(v)]
    /\ lastSet' = [lastSet EXCEPT ![b].target = Some(v)]
    /\ UNCHANGED <<env, buildVars, emitVars>>

(* Build::out_dir *)
out_dir(b, base) ==
    /\ pc = "idle"
    /\ cfg[b].some
    /\ cfg' = [cfg EXCEPT ![b].val.out_dir = Some(Join(base, LlvmBuild))]
    /\ lastSet' = [lastSet EXCEPT ![b].out_dir = Some(base)]
    /\ UNCHANGED <<env, buildVars, emitVars>>

(* Build::profile *)
profile(b, v) ==
    /\ pc = "idle"
    /\ cfg[b].some
    /\ cfg' = [cfg EXCEPT ![b].val.profile = Some(v)]
    /\ lastSet' = [lastSet EXCEPT ![b].profile = Some(v)]
    /\ UNCHANGED <<env, buildVars, emitVars>>

----------------------------------------------------------------------------
(* Build::build *)

MsgUnwrapErr == "called Result::unwrap() on an Err value"
MsgUnwrapNone == "called Option::unwrap() on a None value"
MsgCmake == "cmake build failed"

Panic(site, msg) == Some([site |-> site, msg |-> msg])

(* The four expect() calls, in source order: the message of the first that  *)
(* fails, or None when all four fields are present.                         *)
(* faulty variant: out_dir is not checked *)
ExpectFailureNoOutDir(c) ==
    IF ~c.host.some THEN Some(MsgHost)
    ELSE IF ~c.target.some THEN Some(MsgTarget)
    ELSE IF ~c.profile.some THEN Some(MsgProfile)
    ELSE None

ExpectFailure(c) ==
    IF ~c.host.some THEN Some(MsgHost)
    ELSE IF ~c.target.some THEN Some(MsgTarget)
    ELSE IF ~c.profile.some THEN Some(MsgProfile)
    ELSE IF ~c.out_dir.some THEN Some(MsgOutDir)
    ELSE None

LibDir(out) == Join(out, LibSeg)

(* faulty variant: include_dir computed with the lib segment *)
IncludeDirAsLib(out) == Join(out, LibSeg)

IncludeDir(out) == Join(out, IncludeSeg)

ScanDir(out) == Join(out, BuildLibSeg)

NoLocals == [host |-> <<>>, target |-> <<>>, profile |-> <<>>, out_dir |-> <<>>,
             lib_dir |-> <<>>, include_dir |-> <<>>]

NoCmake == [status |-> "none", source |-> <<>>, host |-> <<>>, target |-> <<>>,
            out_dir |-> <<>>, profile |-> <<>>]

(* Field of an Option that may be None: the value, or the empty string *)
ValOr(o) == IF o.some THEN o.val ELSE <<>>

(* lines 66-74: the expects and the derived paths *)
(* faulty variant: build() takes the configuration by value and drops it *)
build_enter_consuming(b) ==
    /\ pc = "idle"
    /\ cfg[b].some
    /\ calls < MaxCalls
    /\ calls' = calls + 1
    /\ self' = b
    /\ spawned' = 0
    /\ cmake' = NoCmake
    /\ readPath' = None
    /\ listing' = <<>>
    /\ idx' = 1
    /\ libs' = <<>>
    /\ result' = None
    /\ pc' = "configured"
    /\ panic' = None
    /\ locals' = NoLocals
    /\ cfg' = [cfg EXCEPT ![b] = None]
    /\ UNCHANGED <<env, lastSet, emitVars>>

build_enter(b) ==
    /\ pc = "idle"
    /\ cfg[b].some
    /\ calls < MaxCalls
    /\ calls' = calls + 1
    /\ self' = b
    /\ spawned' = 0
    /\ cmake' = NoCmake
    /\ readPath' = None
    /\ listing' = <<>>
    /\ idx' = 1
    /\ libs' = <<>>
    /\ result' = None
    /\ LET c == cfg[b].val
           failure == ExpectFailure(c)
       IN IF failure.some
          THEN /\ pc' = "panicked"
               /\ panic' = Panic("expect", failure.val)
               /\ locals' = NoLocals
          ELSE /\ pc' = "configured"
               /\ panic' = None
               /\ locals' = [host |-> ValOr(c.host), target |-> ValOr(c.target),
                             profile |-> ValOr(c.profile), out_dir |-> ValOr(c.out_dir),
                             lib_dir |-> LibDir(ValOr(c.out_dir)),
                             include_dir |-> IncludeDir(ValOr(c.out_dir))]
    /\ UNCHANGED <<env, cfgVars, emitVars>>

(* lines 76-83: cmake::Config::new(source_dir).host().target().out_dir().profile().build() *)
cmake_spawn ==
    /\ pc = "configured"
    /\ pc' = "cmake"
    /\ spawned' = spawned + 1
    /\ cmake' = [status |-> "running", source |-> SourceDir, host |-> locals.host,
                 target |-> locals.target, out_dir |-> locals.out_dir,
                 profile |-> locals.profile]
    /\ UNCHANGED <<env, cfgVars, self, locals, calls, readPath, listing, idx, libs, result, panic,
                   emitVars>>

(* the external tool finishes: build() returns, or panics when the tool failed *)
(* faulty variant: a failed tool run is retried *)
cmake_exit_retry ==
    /\ pc = "cmake"
    /\ \/ /\ cmake' = [cmake EXCEPT !.status = "ok"]
          /\ pc' = "read_dir"
          /\ UNCHANGED <<panic, spawned>>
       \/ /\ spawned < 2
          /\ cmake' = [cmake EXCEPT !.status = "running"]
          /\ spawned' = spawned + 1
          /\ pc' = "cmake"
          /\ UNCHANGED panic
    /\ UNCHANGED <<env, cfgVars, self, locals, calls, readPath, listing, idx, libs, result, emitVars>>

cmake_exit ==
    /\ pc = "cmake"
    /\ \/ /\ cmake' = [cmake EXCEPT !.status = "ok"]
          /\ pc' = "read_dir"
          /\ UNCHANGED panic
       \/ /\ cmake' = [cmake EXCEPT !.status = "failed"]
          /\ pc' = "panicked"
          /\ panic' = Panic("cmake", MsgCmake)
    /\ UNCHANGED <<env, cfgVars, self, locals, calls, spawned, readPath, listing, idx, libs, result,
                   emitVars>>

(* Directory entries: ok is the Result of the iterator item, ftype the answer *)
(* of DirEntry::file_type ("err" when it fails), name the file name.          *)
FileA == [ok |-> TRUE, ftype |-> "file", name |-> <<"f", ".", "a">>]
FileTwoDots == [ok |-> TRUE, ftype |-> "file", name |-> <<"g", ".", "t", ".", "z">>]
FileNoDot == [ok |-> TRUE, ftype |-> "file", name |-> <<"R">>]
FileNonUtf8 == [ok |-> TRUE, ftype |-> "file", name |-> <<BadByte, ".", "a">>]
DirNoDot == [ok |-> TRUE, ftype |-> "dir", name |-> <<"d">>]
LinkDot == [ok |-> TRUE, ftype |-> "symlink", name |-> <<"l", ".", "s">>]
TypeErr == [ok |-> TRUE, ftype |-> "err", name |-> <<"x", ".", "a">>]
Unreadable == [ok |-> FALSE, ftype |-> "err", name |-> <<>>]

Entries == {FileA, FileTwoDots, FileNoDot, FileNonUtf8, DirNoDot, LinkDot, TypeErr, Unreadable}

Listings == UNION {[1..n -> Entries] : n \in 0..MaxEntries}

(* str::rfind(ch): the 1-based position of the last ch, 0 for None; find the first *)
Find(s, ch) ==
    IF \E i \in 1..Len(s) : s[i] = ch
    THEN CHOOSE i \in 1..Len(s) : s[i] = ch /\ \A j \in 1..(i - 1) : s[j] # ch
    ELSE 0

RFind(s, ch) ==
    IF \E i \in 1..Len(s) : s[i] = ch
    THEN CHOOSE i \in 1..Len(s) : s[i] = ch /\ \A j \in (i + 1)..Len(s) : s[j] # ch
    ELSE 0

(* file_name[..last_dot] *)
(* faulty variant: cuts at the first Dot *)
StripExtFirst(name) == SubSeq(name, 1, Find(name, Dot) - 1)

StripExt(name) == SubSeq(name, 1, RFind(name, Dot) - 1)

(* One pull through the chain map(unwrap) . filter(is_file) . map(strip):    *)
(* the site of the unwrap that panics, or whether the entry yields a name.   *)
(* faulty variant: a regular file without Dot is skipped *)
EntryOutcomeLenient(e) ==
    IF ~e.ok THEN [panic |-> Panic("entry", MsgUnwrapErr), keep |-> FALSE]
    ELSE IF e.ftype = "err" THEN [panic |-> Panic("file_type", MsgUnwrapErr), keep |-> FALSE]
    ELSE IF e.ftype # "file" THEN [panic |-> None, keep |-> FALSE]
    ELSE IF ~IsUnicode(e.name) THEN [panic |-> Panic("into_string", MsgUnwrapErr), keep |-> FALSE]
    ELSE IF RFind(e.name, Dot) = 0 THEN [panic |-> None, keep |-> FALSE]
    ELSE [panic |-> None, keep |-> TRUE]

EntryOutcome(e) ==
    IF ~e.ok THEN [panic |-> Panic("entry", MsgUnwrapErr), keep |-> FALSE]
    ELSE IF e.ftype = "err" THEN [panic |-> Panic("file_type", MsgUnwrapErr), keep |-> FALSE]
    ELSE IF e.ftype # "file" THEN [panic |-> None, keep |-> FALSE]
    ELSE IF ~IsUnicode(e.name) THEN [panic |-> Panic("into_string", MsgUnwrapErr), keep |-> FALSE]
    ELSE IF RFind(e.name, Dot) = 0 THEN [panic |-> Panic("rfind", MsgUnwrapNone), keep |-> FALSE]
    ELSE [panic |-> None, keep |-> TRUE]

(* lines 85-86: std::fs::read_dir(out_dir.join("build/lib")).unwrap() *)
read_dir ==
    /\ pc = "read_dir"
    /\ \/ /\ \E l \in Listings : listing' = l
          /\ pc' = "scan"
          /\ UNCHANGED panic
       \/ /\ pc' = "panicked"
          /\ panic' = Panic("read_dir", MsgUnwrapErr)
          /\ UNCHANGED listing
    /\ readPath' = Some(ScanDir(locals.out_dir))
    /\ idx' = 1
    /\ libs' = <<>>
    /\ UNCHANGED <<env, cfgVars, self, locals, calls, spawned, cmake, result, emitVars>>

(* lines 87-95: collect() pulls the next entry through the chain *)
scan_entry ==
    /\ pc = "scan"
    /\ idx <= Len(listing)
    /\ LET e == listing[idx]
           o == EntryOutcome(e)
       IN IF o.panic.some
          THEN /\ pc' = "panicked"
               /\ panic' = o.panic
               /\ UNCHANGED <<idx, libs>>
          ELSE /\ idx' = idx + 1
               /\ libs' = IF o.keep THEN Append(libs, StripExt(e.name)) ELSE libs
               /\ UNCHANGED <<pc, panic>>
    /\ UNCHANGED <<env, cfgVars, self, locals, calls, spawned, cmake, readPath, listing, result,
                   emitVars>>

MkArtifacts(include_dir, lib_dir, names) ==
    [include_dir |-> include_dir, lib_dir |-> lib_dir, libs |-> names]

(* lines 95-101: the iterator is exhausted, the Artifacts value is returned *)
build_return ==
    /\ pc = "scan"
    /\ idx > Len(listing)
    /\ result' = Some(MkArtifacts(locals.include_dir, locals.lib_dir, libs))
    /\ pc' = "idle"
    /\ UNCHANGED <<env, cfgVars, self, locals, calls, spawned, cmake, readPath, listing, idx,
                   libs, panic, emitVars>>

(* Artifacts::include / Artifacts::lib / Artifacts::libs *)
include(a) == a.include_dir
lib(a) == a.lib_dir
libsOf(a) == a.libs

----------------------------------------------------------------------------
(* Artifacts::print_cargo_metadata *)

(* Path::display(): invalid Unicode is printed as U+FFFD *)
Display(p) == [i \in 1..Len(p) |-> IF p[i] = BadByte THEN "\\uFFFD" ELSE p[i]]

KeyInclude == "cargo:include"
KeyLib == "cargo:lib"
KeyLinkLib == "cargo:rustc-link-lib"

Line(key, value) == [key |-> key, value |-> value]

(* line 139 *)
(* faulty variant: the first line carries the lib key *)
print_include_as_lib ==
    /\ ppc = "called"
    /\ stdout' = Append(stdout, Line(KeyLib, Display(artifacts.lib_dir)))
    /\ ppc' = "lib"
    /\ UNCHANGED <<env, cfgVars, buildVars, artifacts, pidx>>

print_include ==
    /\ ppc = "called"
    /\ stdout' = Append(stdout, Line(KeyInclude, Display(artifacts.include_dir)))
    /\ ppc' = "lib"
    /\ UNCHANGED <<env, cfgVars, buildVars, artifacts, pidx>>

(* line 140 *)
print_lib ==
    /\ ppc = "lib"
    /\ stdout' = Append(stdout, Line(KeyLib, Display(artifacts.lib_dir)))
    /\ ppc' = "loop"
    /\ pidx' = 1
    /\ UNCHANGED <<env, cfgVars, buildVars, artifacts>>

(* lines 141-143: one iteration of the for loop *)
print_link_lib ==
    /\ ppc = "loop"
    /\ pidx <= Len(artifacts.libs)
    /\ stdout' = Append(stdout, Line(KeyLinkLib, artifacts.libs[pidx]))
    /\ pidx' = pidx + 1
    /\ UNCHANGED <<env, cfgVars, buildVars, artifacts, ppc>>

(* line 144: the loop is over *)
print_return ==
    /\ ppc = "loop"
    /\ pidx > Len(artifacts.libs)
    /\ ppc' = "done"
    /\ UNCHANGED <<env, cfgVars, buildVars, artifacts, pidx, stdout>>

----------------------------------------------------------------------------
(* Inputs *)

EnvOf(h, t, o, p) == [HOST |-> h, TARGET |-> t, OUT_DIR |-> o, PROFILE |-> p]

EnvHost == <<"x">>
EnvTarget == <<"y">>
EnvOutDir == <<"o">>
EnvProfile == <<"D">>

ArgHost == <<"h">>
ArgTarget == <<"g">>
ArgOutDir == <<"t">>
ArgProfile == <<"R">>

(* environments of the runs that call build() *)
BuildEnvs ==
    {EnvOf(None, None, None, None),
     EnvOf(None, None, Some(EnvOutDir), None),
     EnvOf(Some(EnvHost), Some(EnvTarget), Some(EnvOutDir), Some(EnvProfile))}

(* environments of the runs that only construct and configure *)
ConfigEnvs ==
    {EnvOf(h, t, o, p) :
        h \in {None, Some(EnvHost), Some(<<BadByte>>)},
        t \in {None, Some(EnvTarget)},
        o \in {None, Some(<<>>), Some(EnvOutDir), Some(EnvOutDir \o <<Sep>>), Some(<<BadByte>>)},
        p \in {None, Some(EnvProfile)}}

ConfigBases == {<<>>, EnvOutDir \o <<Sep>>, <<Sep, "t">>}

(* Artifacts values build() can return, for print_cargo_metadata *)
LibNames == {<<"f">>, <<"g", ".", "t">>}

EmitArtifacts ==
    {MkArtifacts(IncludeDir(d), LibDir(d), names) :
        d \in {Join(ArgOutDir, LlvmBuild), Join(<<BadByte>>, LlvmBuild)},
        names \in UNION {[1..n -> LibNames] : n \in 0..MaxLibs}}

NoArtifacts == MkArtifacts(<<>>, <<>>, <<>>)

----------------------------------------------------------------------------
(* Specifications *)

InitWith(envs) ==
    /\ env \in envs
    /\ cfg = [b \in Builds |-> None]
    /\ lastSet = [b \in Builds |-> NoSetters]
    /\ pc = "idle"
    /\ self = "b1"
    /\ locals = NoLocals
    /\ calls = 0
    /\ spawned = 0
    /\ cmake = NoCmake
    /\ readPath = None
    /\ listing = <<>>
    /\ idx = 1
    /\ libs = <<>>
    /\ result = None
    /\ panic = None
    /\ artifacts = NoArtifacts
    /\ ppc = "none"
    /\ pidx = 1
    /\ stdout = <<>>

(* One Build, configured, built (possibly again) as main.rs does *)
Init == InitWith(BuildEnvs)

Next ==
    \/ New("b1")
    \/ host("b1", ArgHost)
    \/ target("b1", ArgTarget)
    \/ out_dir("b1", ArgOutDir)
    \/ profile("b1", ArgProfile)
    \/ build_enter("b1")
    \/ cmake_spawn
    \/ cmake_exit
    \/ read_dir
    \/ scan_entry
    \/ build_return

Spec == Init /\ [][Next]_vars

(* Two Builds constructed from one environment and configured by setters *)
InitConfig == InitWith(ConfigEnvs)

NextConfig ==
    \E b \in Builds :
        \/ New(b)
        \/ host(b, ArgHost)
        \/ target(b, ArgTarget)
        \/ \E base \in ConfigBases : out_dir(b, base)
        \/ profile(b, ArgProfile)

SpecConfig == InitConfig /\ [][NextConfig]_vars

(* print_cargo_metadata called on an Artifacts value *)
InitEmit ==
    /\ env = EnvOf(None, None, None, None)
    /\ cfg = [b \in Builds |-> None]
    /\ lastSet = [b \in Builds |-> NoSetters]
    /\ pc = "idle"
    /\ self = "b1"
    /\ locals = NoLocals
    /\ calls = 0
    /\ spawned = 0
    /\ cmake = NoCmake
    /\ readPath = None
    /\ listing = <<>>
    /\ idx = 1
    /\ libs = <<>>
    /\ result = None
    /\ panic = None
    /\ artifacts \in EmitArtifacts
    /\ ppc = "called"
    /\ pidx = 1
    /\ stdout = <<>>

NextEmit ==
    \/ print_include
    \/ print_lib
    \/ print_link_lib
    \/ print_return

SpecEmit == InitEmit /\ [][NextEmit]_vars

----------------------------------------------------------------------------
(* Properties *)

(* Path::components: the non-empty runs between separators, and whether the *)
(* path starts at the root.  Two paths are equal when these are.            *)
RECURSIVE Split(_)
Split(p) ==
    IF p = <<>> THEN <<>>
    ELSE IF Head(p) = Sep THEN Split(Tail(p))
    ELSE LET n == IF Find(p, Sep) = 0 THEN Len(p) + 1 ELSE Find(p, Sep)
         IN <<SubSeq(p, 1, n - 1)>> \o Split(SubSeq(p, n, Len(p)))

Components(p) == [root |-> Len(p) > 0 /\ p[1] = Sep, names |-> Split(p)]

(* the path `p` is the path `base` followed by the one component `seg` *)
IsChildOf(p, base, seg) ==
    /\ Components(p).root = Components(base).root
    /\ Components(p).names = Append(Components(base).names, seg)

InBuildCall == calls > 0 /\ pc # "idle" /\ cfg[self].some

ExpectOrder == <<"host", "target", "profile", "out_dir">>
ExpectMsg == [host |-> MsgHost, target |-> MsgTarget, profile |-> MsgProfile,
              out_dir |-> MsgOutDir]

AbortedNaming(f) ==
    /\ pc = "panicked"
    /\ panic.some
    /\ panic.val.site = "expect"
    /\ panic.val.msg = ExpectMsg[f]
    /\ spawned = 0
    /\ cmake.status = "none"

(* C1, as stated: build() called with a field absent aborts with the message *)
(* naming that very field, whatever the other three fields hold, and the     *)
(* external tool has been invoked zero times.                                *)
C1_Original ==
    InBuildCall =>
        \A i \in 1..4 : ~cfg[self].val[ExpectOrder[i]].some => AbortedNaming(ExpectOrder[i])

(* C1, amended: build() called with any field absent aborts with the message *)
(* naming the first absent field in the order host, target, profile,         *)
(* out_dir, and the external tool has been invoked zero times by the call.   *)
C1_FirstAbsentNamed ==
    InBuildCall =>
        \A i \in 1..4 :
            (/\ ~cfg[self].val[ExpectOrder[i]].some
             /\ \A j \in 1..(i - 1) : cfg[self].val[ExpectOrder[j]].some)
            => AbortedNaming(ExpectOrder[i])

C1_Witness ==
    /\ pc = "panicked"
    /\ panic.some
    /\ panic.val.msg = MsgTarget
    /\ cfg[self].val.host.some
    /\ ~cfg[self].val.out_dir.some
    /\ spawned = 0

IsRegular(e) == e.ok /\ e.ftype = "file"

HasDot(name) == \E i \in 1..Len(name) : name[i] = Dot

(* `stem` is `name` cut just before its last Dot *)
IsStemOf(stem, name) ==
    /\ Len(stem) < Len(name)
    /\ SubSeq(name, 1, Len(stem)) = stem
    /\ name[Len(stem) + 1] = Dot
    /\ \A j \in (Len(stem) + 2)..Len(name) : name[j] # Dot

(* C2: the libs returned are, in enumeration order, the names of the regular *)
(* files cut before their last '.'; an entry that is not a regular file      *)
(* contributes nothing and is never the entry the scan aborts on.            *)
C2_LibsAreStems ==
    /\ result.some =>
         LET regs == SelectSeq(listing, IsRegular)
         IN /\ Len(libsOf(result.val)) = Len(regs)
            /\ \A i \in 1..Len(regs) : IsStemOf(libsOf(result.val)[i], regs[i].name)
    /\ (pc = "panicked" /\ panic.val.site \in {"entry", "file_type", "into_string", "rfind"}) =>
         /\ idx \in 1..Len(listing)
         /\ ~(listing[idx].ok /\ listing[idx].ftype \in {"dir", "symlink"})
         /\ panic.val.site = "rfind" => (IsRegular(listing[idx]) /\ ~HasDot(listing[idx].name))

C2_Witness ==
    /\ result.some
    /\ listing = <<DirNoDot, FileTwoDots>>
    /\ result.val.libs = << <<"g", ".", "t">> >>

NoSetterCalled(b) == lastSet[b] = NoSetters

(* C3: the stored out_dir is the supplied base path followed by the one      *)
(* component llvm-build, after the setter and after construction from        *)
(* OUT_DIR alike, so the two agree on the same base.                         *)
C3_OutDirIsBaseJoined ==
    /\ \A b \in Builds :
         cfg[b].some =>
           /\ lastSet[b].out_dir.some =>
                /\ cfg[b].val.out_dir.some
                /\ IsChildOf(cfg[b].val.out_dir.val, lastSet[b].out_dir.val, LlvmBuild)
           /\ (~lastSet[b].out_dir.some /\ env["OUT_DIR"].some) =>
                /\ cfg[b].val.out_dir.some
                /\ IsChildOf(cfg[b].val.out_dir.val, env["OUT_DIR"].val, LlvmBuild)
    /\ \A b1, b2 \in Builds :
         (/\ cfg[b1].some /\ cfg[b2].some
          /\ ~lastSet[b1].out_dir.some
          /\ lastSet[b2].out_dir = env["OUT_DIR"])
         => cfg[b1].val.out_dir = cfg[b2].val.out_dir

C3_Witness ==
    /\ cfg["b1"].some /\ cfg["b2"].some
    /\ env["OUT_DIR"] = Some(EnvOutDir \o <<Sep>>)
    /\ ~lastSet["b1"].out_dir.some
    /\ lastSet["b2"].out_dir = env["OUT_DIR"]
    /\ cfg["b2"].val.out_dir = Some(<<"o", "/">> \o LlvmBuild)

(* C4: the Artifacts value returned by a call whose effective output         *)
(* directory is D has include() = D/include and lib() = D/lib, whatever      *)
(* D/build/lib held.                                                         *)
C4_IncludeAndLibUnderOutDir ==
    /\ pc \in {"configured", "cmake", "read_dir", "scan"} =>
         locals.out_dir = cfg[self].val.out_dir.val
    /\ result.some =>
         /\ IsChildOf(include(result.val), locals.out_dir, IncludeSeg)
         /\ IsChildOf(lib(result.val), locals.out_dir, LibSeg)

C4_Witness ==
    /\ result.some
    /\ listing = <<FileA, LinkDot>>
    /\ locals.out_dir = <<"t", "/">> \o LlvmBuild
    /\ include(result.val) = locals.out_dir \o <<"/">> \o IncludeSeg
    /\ lib(result.val) = locals.out_dir \o <<"/">> \o LibSeg

(* the lines print_cargo_metadata has to emit for `a`, by position *)
IsExpectedLine(a, i, line) ==
    IF i = 1 THEN /\ line.key = KeyInclude
                  /\ IsUnicode(a.include_dir) => line.value = a.include_dir
    ELSE IF i = 2 THEN /\ line.key = KeyLib
                       /\ IsUnicode(a.lib_dir) => line.value = a.lib_dir
    ELSE /\ i - 2 <= Len(a.libs)
         /\ line.key = KeyLinkLib
         /\ line.value = a.libs[i - 2]

EmittedInOrder ==
    /\ \A i \in 1..Len(stdout) : IsExpectedLine(artifacts, i, stdout[i])
    /\ ppc = "done" => Len(stdout) = 2 + Len(artifacts.libs)

(* C5: print_cargo_metadata emits exactly 2 + n lines: the cargo:include     *)
(* line, the cargo:lib line, then one cargo:rustc-link-lib line per library  *)
(* in list order; the Artifacts value is left unchanged.                     *)
C5_EmitsIncludeLibThenLibs == [](EmittedInOrder) /\ [][artifacts' = artifacts]_vars

C5_Witness ==
    /\ ppc = "done"
    /\ artifacts.libs = << <<"f">>, <<"g", ".", "t">> >>
    /\ Len(stdout) = 4
    /\ stdout[3].value = <<"f">>
    /\ stdout[4].value = <<"g", ".", "t">>

(* what construction derives for a field from the environment *)
EnvNameOf == [host |-> "HOST", target |-> "TARGET", out_dir |-> "OUT_DIR",
              profile |-> "PROFILE"]

HoldsEnvValue(b, f) ==
    LET v == env[EnvNameOf[f]]
        x == cfg[b].val[f]
    IN /\ ~v.some => ~x.some
       /\ (v.some /\ f = "out_dir") => (x.some /\ IsChildOf(x.val, v.val, LlvmBuild))
       /\ (v.some /\ f # "out_dir" /\ IsUnicode(v.val)) => x = v
       /\ (v.some /\ f # "out_dir" /\ ~IsUnicode(v.val)) => ~x.some

HoldsSetValue(b, f) ==
    LET a == lastSet[b][f].val
        x == cfg[b].val[f]
    IN /\ x.some
       /\ IF f = "out_dir" THEN IsChildOf(x.val, a, LlvmBuild) ELSE x.val = a

(* C6: each field holds what the last setter call for that field stored, or, *)
(* when that setter was never called, what construction derived from its     *)
(* environment variable; so a setter call changes no other field.            *)
C6_SettersOverrideEnv ==
    \A b \in Builds :
        cfg[b].some =>
            \A i \in 1..4 :
                IF lastSet[b][ExpectOrder[i]].some
                THEN HoldsSetValue(b, ExpectOrder[i])
                ELSE HoldsEnvValue(b, ExpectOrder[i])

C6_Witness ==
    /\ cfg["b1"].some
    /\ env["HOST"] = Some(EnvHost)
    /\ env["TARGET"] = Some(EnvTarget)
    /\ lastSet["b1"].host.some
    /\ ~lastSet["b1"].target.some
    /\ lastSet["b1"].profile.some
    /\ cfg["b1"].val.host = Some(ArgHost)
    /\ cfg["b1"].val.target = Some(EnvTarget)

(* C7, as stated: two Builds constructed from the same environment are equal *)
(* field for field, and each field is present exactly when its environment   *)
(* variable is set.                                                          *)
C7_Original ==
    /\ \A b1, b2 \in Builds :
         (cfg[b1].some /\ cfg[b2].some /\ NoSetterCalled(b1) /\ NoSetterCalled(b2))
         => cfg[b1] = cfg[b2]
    /\ \A b \in Builds :
         (cfg[b].some /\ NoSetterCalled(b)) =>
            \A i \in 1..4 :
                cfg[b].val[ExpectOrder[i]].some <=> env[EnvNameOf[ExpectOrder[i]]].some

(* C7, amended: two Builds constructed from the same environment are equal   *)
(* field for field; out_dir is present exactly when OUT_DIR is set, and      *)
(* host, target and profile are present exactly when their variable is set   *)
(* to valid Unicode, each independently of the other three.                  *)
C7_SameEnvSameBuild ==
    /\ \A b1, b2 \in Builds :
         (cfg[b1].some /\ cfg[b2].some /\ NoSetterCalled(b1) /\ NoSetterCalled(b2))
         => cfg[b1] = cfg[b2]
    /\ \A b \in Builds :
         (cfg[b].some /\ NoSetterCalled(b)) =>
            \A i \in 1..4 :
                LET f == ExpectOrder[i]
                    v == env[EnvNameOf[f]]
                IN cfg[b].val[f].some <=> (v.some /\ (f = "out_dir" \/ IsUnicode(v.val)))

C7_Witness ==
    /\ cfg["b1"].some /\ cfg["b2"].some
    /\ NoSetterCalled("b1") /\ NoSetterCalled("b2")
    /\ env["HOST"] = Some(<<BadByte>>)
    /\ env["OUT_DIR"] = Some(<<BadByte>>)
    /\ env["TARGET"] = Some(EnvTarget)
    /\ ~env["PROFILE"].some
    /\ ~cfg["b1"].val.host.some
    /\ cfg["b2"].val.target = Some(EnvTarget)
    /\ cfg["b2"].val.out_dir.some
    /\ ~cfg["b2"].val.profile.some

(* an entry the iterator chain gets past without a panic *)
PassesScan(e) ==
    /\ e.ok
    /\ e.ftype # "err"
    /\ e.ftype = "file" => (IsUnicode(e.name) /\ HasDot(e.name))

(* C8: no partial results: when the external tool fails, the directory       *)
(* cannot be read, an entry is unreadable or a regular file's name has no    *)
(* '.', wherever it comes in the enumeration, the call aborts and returns no *)
(* Artifacts value.                                                          *)
C8_NoPartialResults ==
    /\ result.some =>
         /\ cmake.status = "ok"
         /\ pc = "idle"
         /\ \A i \in 1..Len(listing) : PassesScan(listing[i])
    /\ pc = "scan" => \A i \in 1..(idx - 1) : PassesScan(listing[i])
    /\ cmake.status = "failed" => pc = "panicked"
    /\ pc = "panicked" => (panic.some /\ ~result.some)

C8_Witness ==
    /\ pc = "panicked"
    /\ listing = <<FileA, FileNoDot>>
    /\ libs = << <<"f">> >>
    /\ panic.val.site = "rfind"
    /\ ~result.some

C10_OneInvocationThenRead ==
    /\ spawned <= 1
    /\ pc = "configured" => (spawned = 0 /\ cmake.status = "none")
    /\ (pc \in {"cmake", "read_dir", "scan"} \/ result.some) => spawned = 1
    /\ pc \in {"cmake", "read_dir", "scan"} =>
         /\ cmake.source = SourceDir
         /\ Some(cmake.host) = cfg[self].val.host
         /\ Some(cmake.target) = cfg[self].val.target
         /\ Some(cmake.out_dir) = cfg[self].val.out_dir
         /\ Some(cmake.profile) = cfg[self].val.profile
    /\ pc = "cmake" <=> cmake.status = "running"
    /\ pc \in {"configured", "cmake", "read_dir"} =>
         (~readPath.some /\ listing = <<>> /\ idx = 1 /\ libs = <<>>)
    /\ readPath.some =>
         /\ cmake.status = "ok"
         /\ Components(readPath.val).root = Components(cmake.out_dir).root
         /\ Components(readPath.val).names =
              Components(cmake.out_dir).names \o << <<"b", "u", "i", "l", "d">>, LibSeg >>
    /\ (pc \in {"read_dir", "scan"} \/ result.some) => cmake.status = "ok"
    /\ (pc = "panicked" /\ panic.val.site = "cmake") => (spawned = 1 /\ cmake.status = "failed")

C10_Witness ==
    /\ pc = "scan"
    /\ idx = 2
    /\ spawned = 1
    /\ cmake.status = "ok"
    /\ cmake.host = ArgHost
    /\ cmake.target = EnvTarget
    /\ cmake.out_dir = <<"o", "/">> \o LlvmBuild
    /\ readPath = Some(cmake.out_dir \o <<"/">> \o BuildLibSeg)

====
